---- MODULE Spec2Model ----
(***************************************************************************)
(* PromptLab API: the in-memory Storage (storage.py), the request models   *)
(* (models.py) and the route handlers (api.py), one action per handler.    *)
(*                                                                         *)
(* Text is a sequence of one-character strings, so that len(), strip() and *)
(* truthiness are computed as Python computes them.  Python's None is the  *)
(* value None below; an Optional[Prompt] / Optional[Collection] is a       *)
(* sequence of length 0 (None) or 1.  A dict is the sequence of its        *)
(* <<key, value>> items in insertion order.                                *)
(***************************************************************************)
EXTENDS Integers, Sequences, FiniteSets, TLC

VARIABLES
    prompts,      \* Storage._prompts
    collections,  \* Storage._collections
    now,          \* the last value the clock returned
    issued,       \* how many ids generate_id() has returned
    request,      \* the request being answered: [op, id, body]
    response,     \* its answer: [status, body]
    pre,          \* both maps as they were when the request arrived
    script,       \* the end-to-end client: its step and the ids it was given
    threads,      \* the worker threads: each one's request, position and locals
    overlapped    \* a thread took a step while another was inside a handler

vars ==
    <<prompts, collections, now, issued, request, response, pre, script,
      threads, overlapped>>

----------------------------------------------------------------------------
(* Bounds *)

MaxIds == 2
MaxClock == 1

----------------------------------------------------------------------------
(* Values *)

None == <<"None">>

Whitespace == {" ", "\t", "\n"}

Text(n, ch) == [i \in 1..n |-> ch]

Uuid(n) == <<"u", ToString(n)>>

AllIds == {Uuid(n) : n \in 1..MaxIds}

BlankIds == {<<>>, <<" ">>}

PathIds == BlankIds \cup AllIds

TitleMax == 200
DescriptionMax == 500
NameMax == 100

Body(title, content, description, collection_id) ==
    [title |-> title, content |-> content,
     description |-> description, collection_id |-> collection_id]

\* title, content and description of the bodies that are sent
TextInputs == {<<<<"a">>, <<"x">>, None>>, <<<<"B">>, <<"y">>, <<"d">>>>}
CollectionIdInputs == {None, <<>>, Uuid(1)}
NameInputs == {None, <<"n">>}

\* request bodies that satisfy the field constraints
ValidBodies ==
    {Body(t[1], t[2], t[3], c) : t \in TextInputs, c \in CollectionIdInputs}

SomeValidBody == Body(<<"a">>, <<"x">>, None, None)
OnlyTitle == Body(<<"a">>, None, None, None)
EmptyTitle == Body(<<>>, <<"x">>, None, None)

\* request bodies that leave out a required field or break a length constraint
InvalidBodies ==
    {OnlyTitle,
     EmptyTitle,
     Body(None, <<"x">>, None, None),
     Body(<<"a">>, <<>>, None, None),
     Body(Text(TitleMax + 1, "a"), <<"x">>, None, None),
     Body(<<"a">>, <<"x">>, Text(DescriptionMax + 1, "d"), None)}

PromptBodies == ValidBodies \cup InvalidBodies

\* the valid bodies sent to PUT and PATCH /prompts/{id}
UpdateBodies ==
    {Body(<<"a">>, <<"x">>, None, None),
     Body(<<"a">>, <<"x">>, None, <<>>),
     Body(<<"a">>, <<"x">>, <<"d">>, Uuid(1))}

\* the <<id, body>> pairs sent to PUT and PATCH /prompts/{id}: the valid bodies
\* to every id that can be stored, a valid body to the blank ids, and an
\* invalid body to a blank id and to an id that can be stored
UpdateInputs ==
    (AllIds \X UpdateBodies)
        \cup (BlankIds \X {SomeValidBody})
        \cup ({<<" ">>, Uuid(1)} \X {OnlyTitle})

CollectionBodies == [name : NameInputs, description : {None}]

\* the search terms sent to GET /prompts
SearchInputs == {None, <<"A">>, <<"Y">>}

\* the <<collection_id, search>> query parameters sent to GET /prompts: each
\* parameter alone, neither, and both
ListInputs ==
    (CollectionIdInputs \X {None})
        \cup ({None} \X SearchInputs)
        \cup {<<Uuid(1), <<"Y">>>>}

----------------------------------------------------------------------------
(* Python built-ins *)

\* bool(s) of an Optional[str]
Truthy(s) == s # None /\ Len(s) > 0

RECURSIVE LStrip(_)
LStrip(s) ==
    IF s = <<>> THEN s
    ELSE IF Head(s) \in Whitespace THEN LStrip(Tail(s)) ELSE s

RECURSIVE RStrip(_)
RStrip(s) ==
    IF s = <<>> THEN s
    ELSE IF s[Len(s)] \in Whitespace THEN RStrip(SubSeq(s, 1, Len(s) - 1)) ELSE s

\* str.strip()
Strip(s) == RStrip(LStrip(s))

\* not id
BlankId_unstripped(id) == ~Truthy(id)

\* not id or not id.strip()
BlankId(id) == ~Truthy(id) \/ ~Truthy(Strip(id))

\* dict
DictIndex(d, k) == {i \in DOMAIN d : d[i][1] = k}
DictHas(d, k) == DictIndex(d, k) # {}
DictGet(d, k) ==
    LET at == DictIndex(d, k)
    IN IF at # {} THEN <<d[CHOOSE i \in at : TRUE][2]>> ELSE <<>>
\* d[k] = v that moves an existing key to the end
DictSet_reinserting(d, k, v) ==
    Append(SelectSeq(d, LAMBDA item : item[1] # k), <<k, v>>)
DictSet(d, k, v) ==
    IF DictHas(d, k)
    THEN [i \in DOMAIN d |-> IF d[i][1] = k THEN <<k, v>> ELSE d[i]]
    ELSE Append(d, <<k, v>>)
DictDel(d, k) == SelectSeq(d, LAMBDA item : item[1] # k)
DictValues(d) == [i \in DOMAIN d |-> d[i][2]]

\* str.lower()
UpperCase ==
    <<"A", "B", "C", "D", "E", "F", "G", "H", "I", "J", "K", "L", "M",
      "N", "O", "P", "Q", "R", "S", "T", "U", "V", "W", "X", "Y", "Z">>
LowerCase ==
    <<"a", "b", "c", "d", "e", "f", "g", "h", "i", "j", "k", "l", "m",
      "n", "o", "p", "q", "r", "s", "t", "u", "v", "w", "x", "y", "z">>
lower_char(c) ==
    LET at == {i \in DOMAIN UpperCase : UpperCase[i] = c}
    IN IF at # {} THEN LowerCase[CHOOSE i \in at : TRUE] ELSE c
lower(s) == [i \in DOMAIN s |-> lower_char(s[i])]

\* t in s
IsSubstring(t, s) ==
    \E i \in 0..(Len(s) - Len(t)) : SubSeq(s, i + 1, i + Len(t)) = t

----------------------------------------------------------------------------
(* models.py *)

\* generate_id(): the n-th uuid4
generate_id(n) == Uuid(n + 1)

\* get_current_time(): the values a read of the clock can return after t
get_current_time(t) == {u \in {t, t + 1} : u <= MaxClock}

\* PromptBase field constraints (PromptCreate and PromptUpdate add none)
PromptBase(b) ==
    /\ b.title # None /\ Len(b.title) >= 1 /\ Len(b.title) <= TitleMax
    /\ b.content # None /\ Len(b.content) >= 1
    /\ b.description # None => Len(b.description) <= DescriptionMax

\* CollectionBase field constraints
CollectionBase(b) ==
    /\ b.name # None /\ Len(b.name) >= 1 /\ Len(b.name) <= NameMax
    /\ b.description # None => Len(b.description) <= DescriptionMax

\* Prompt(...)
Prompt(id, title, content, description, collection_id, created_at, updated_at) ==
    [id |-> id, title |-> title, content |-> content,
     description |-> description, collection_id |-> collection_id,
     created_at |-> created_at, updated_at |-> updated_at]

\* Collection(...)
Collection(id, name, description, created_at) ==
    [id |-> id, name |-> name, description |-> description,
     created_at |-> created_at]

\* PromptList(...)
PromptList(ps, total) == [prompts |-> ps, total |-> total]

\* CollectionList(...)
CollectionList(cs, total) == [collections |-> cs, total |-> total]

----------------------------------------------------------------------------
(* storage.py *)

Storage_create_prompt(ps, p) == DictSet(ps, p.id, p)
Storage_get_prompt(ps, id) == DictGet(ps, id)
Storage_get_all_prompts(ps) == DictValues(ps)
\* an update_prompt that makes the new prompt the only one stored
Storage_update_prompt_alone(ps, id, p) == IF ~DictHas(ps, id) THEN ps ELSE <<<<id, p>>>>
Storage_update_prompt(ps, id, p) == IF ~DictHas(ps, id) THEN ps ELSE DictSet(ps, id, p)
\* a delete_prompt that removes nothing
Storage_delete_prompt_keeping(ps, id) == ps
Storage_delete_prompt(ps, id) == DictDel(ps, id)
Storage_create_collection(cs, c) == DictSet(cs, c.id, c)
Storage_get_collection(cs, id) == DictGet(cs, id)
Storage_get_all_collections(cs) == DictValues(cs)
\* a delete_collection that removes nothing
Storage_delete_collection_keeping(cs, id) == cs
Storage_delete_collection(cs, id) == DictDel(cs, id)

----------------------------------------------------------------------------
(* utils.py *)

\* filter_prompts_by_collection(prompts, collection_id)
filter_prompts_by_collection(ps, cid) ==
    SelectSeq(ps, LAMBDA p : p.collection_id = cid)

\* search_prompts(prompts, query)
search_prompts(ps, query) ==
    LET q == lower(query)
    IN SelectSeq(ps, LAMBDA p : \/ IsSubstring(q, lower(p.title))
                                \/ IsSubstring(q, lower(p.content)))

\* where a stable sort by updated_at puts p among the sorted prompts s
RECURSIVE InsertByDate(_, _, _)
InsertByDate(s, p, descending) ==
    IF s = <<>> THEN <<p>>
    ELSE IF (IF descending THEN p.updated_at > Head(s).updated_at
                           ELSE p.updated_at < Head(s).updated_at)
    THEN <<p>> \o s
    ELSE <<Head(s)>> \o InsertByDate(Tail(s), p, descending)

\* sort_prompts_by_date(prompts, descending)
RECURSIVE sort_prompts_by_date(_, _)
sort_prompts_by_date(ps, descending) ==
    IF ps = <<>> THEN <<>>
    ELSE InsertByDate(sort_prompts_by_date(SubSeq(ps, 1, Len(ps) - 1), descending),
                      ps[Len(ps)], descending)

----------------------------------------------------------------------------
(* api.py *)

Snapshot == [prompts |-> prompts, collections |-> collections]

Request(op, id, body) == [op |-> op, id |-> id, body |-> body]

NoRequest == Request("none", None, <<>>)
NoResponse == [status |-> 0, body |-> <<>>]

\* The server answers one request at a time: a handler starts when no request
\* is being answered, and records the request and the maps as it found them.
Idle == request = NoRequest

Receive(req) ==
    /\ Idle
    /\ request' = req
    /\ pre' = Snapshot
    /\ UNCHANGED <<threads, overlapped>>

\* the inputs a request can arrive with: none while one is being answered
Arriving(inputs) == IF Idle THEN inputs ELSE {}

\* the handler's answer; a request that fails leaves the storage alone
Reply(status, body) == response' = [status |-> status, body |-> body]

Reject(status) ==
    /\ Reply(status, <<>>)
    /\ UNCHANGED <<prompts, collections, now, issued>>

\* the end-to-end client has not started
NoScript == [started |-> FALSE, step |-> 0, cid |-> None, pid |-> None]

\* the worker threads that run handlers at the same time
Threads == {1, 2}

\* a thread that has been given no request
IdleThread ==
    [req |-> NoRequest, pc |-> "idle", existing |-> <<>>, updated |-> <<>>,
     status |-> 0]

\* how many ids generate_id() may return: MaxIds to the requests at large, and
\* two more to the end-to-end client, which creates two entities
IdsAvailable == IF script.started THEN MaxIds + 2 ELSE MaxIds

Init ==
    /\ prompts = <<>>
    /\ collections = <<>>
    /\ now = 0
    /\ issued = 0
    /\ request = NoRequest
    /\ response = NoResponse
    /\ pre = [prompts |-> <<>>, collections |-> <<>>]
    /\ script = NoScript
    /\ threads = [t \in Threads |-> IdleThread]
    /\ overlapped = FALSE

\* x or y
IfTruthy(x, y) == IF Truthy(x) THEN x ELSE y

\* x if x is not None else y
IfNotNone(x, y) == IF x # None THEN x ELSE y

\* a Prompt stamped anew instead of keeping the stored created_at
PutPrompt_restamped(existing, prompt_data, updated_at) ==
    Prompt(existing.id, prompt_data.title, prompt_data.content,
           prompt_data.description, prompt_data.collection_id,
           updated_at, updated_at)

\* a Prompt that keeps the stored description and collection_id when the body
\* leaves them out
PutPrompt_merging(existing, prompt_data, updated_at) ==
    Prompt(existing.id, prompt_data.title, prompt_data.content,
           IfNotNone(prompt_data.description, existing.description),
           IfNotNone(prompt_data.collection_id, existing.collection_id),
           existing.created_at, updated_at)

\* a Prompt built without id=existing.id, which takes a new id from generate_id
PutPrompt_reissued(existing, prompt_data, updated_at) ==
    Prompt(generate_id(issued), prompt_data.title, prompt_data.content,
           prompt_data.description, prompt_data.collection_id,
           existing.created_at, updated_at)

\* update_prompt: the Prompt it builds from the stored one and the body
PutPrompt(existing, prompt_data, updated_at) ==
    Prompt(existing.id, prompt_data.title, prompt_data.content,
           prompt_data.description, prompt_data.collection_id,
           existing.created_at, updated_at)

\* a patch_prompt that takes every field from the body, nulls included
PatchPrompt_replacing(existing, prompt_data, updated_at) ==
    Prompt(existing.id, prompt_data.title, prompt_data.content,
           prompt_data.description, prompt_data.collection_id,
           existing.created_at, updated_at)

\* a patch_prompt that passes the two timestamps the wrong way round
PatchPrompt_swapped_stamps(existing, prompt_data, updated_at) ==
    Prompt(existing.id,
           IfNotNone(prompt_data.title, existing.title),
           IfNotNone(prompt_data.content, existing.content),
           IfNotNone(prompt_data.description, existing.description),
           IfNotNone(prompt_data.collection_id, existing.collection_id),
           updated_at, existing.created_at)

\* patch_prompt: the Prompt it builds from the stored one and the body
PatchPrompt(existing, prompt_data, updated_at) ==
    Prompt(existing.id,
           IfNotNone(prompt_data.title, existing.title),
           IfNotNone(prompt_data.content, existing.content),
           IfNotNone(prompt_data.description, existing.description),
           IfNotNone(prompt_data.collection_id, existing.collection_id),
           existing.created_at, updated_at)

list_prompts(collection_id, search) ==
    /\ Receive(Request("list_prompts", collection_id, <<search>>))
    /\ UNCHANGED <<prompts, collections, now, issued>>
    /\ LET all_prompts == Storage_get_all_prompts(prompts)
           in_collection ==
               IF Truthy(collection_id)
               THEN filter_prompts_by_collection(all_prompts, collection_id)
               ELSE all_prompts
           found ==
               IF Truthy(search)
               THEN search_prompts(in_collection, search)
               ELSE in_collection
           sorted == sort_prompts_by_date(found, TRUE)
       IN Reply(200, <<PromptList(sorted, Len(sorted))>>)

get_prompt(prompt_id) ==
    /\ Receive(Request("get_prompt", prompt_id, <<>>))
    /\ UNCHANGED <<prompts, collections, now, issued>>
    /\ IF BlankId(prompt_id)
       THEN Reply(404, <<>>)
       ELSE LET prompt == Storage_get_prompt(prompts, prompt_id) IN
            IF prompt = <<>> THEN Reply(404, <<>>) ELSE Reply(200, prompt)

create_prompt(prompt_data) ==
    /\ Receive(Request("create_prompt", None, <<prompt_data>>))
    /\ IF ~PromptBase(prompt_data)
       THEN Reject(422)
       ELSE IF /\ Truthy(prompt_data.collection_id)
               /\ Storage_get_collection(collections, prompt_data.collection_id) = <<>>
       THEN Reject(400)
       ELSE /\ issued < IdsAvailable
            /\ \E created_at \in get_current_time(now) :
               \E updated_at \in get_current_time(created_at) :
                 LET prompt == Prompt(generate_id(issued), prompt_data.title,
                                      prompt_data.content, prompt_data.description,
                                      prompt_data.collection_id, created_at, updated_at)
                 IN /\ prompts' = Storage_create_prompt(prompts, prompt)
                    /\ now' = updated_at
                    /\ Reply(201, <<prompt>>)
            /\ issued' = issued + 1
            /\ UNCHANGED collections

\* update_prompt that stores the new Prompt before it looks up the collection
update_prompt_store_first(prompt_id, prompt_data) ==
    /\ Receive(Request("update_prompt", prompt_id, <<prompt_data>>))
    /\ IF ~PromptBase(prompt_data)
       THEN Reject(422)
       ELSE IF BlankId(prompt_id)
       THEN Reject(404)
       ELSE LET existing == Storage_get_prompt(prompts, prompt_id) IN
       IF existing = <<>>
       THEN Reject(404)
       ELSE \E updated_at \in get_current_time(now) :
              LET updated_prompt == PutPrompt(existing[1], prompt_data, updated_at)
              IN /\ prompts' = Storage_update_prompt(prompts, prompt_id, updated_prompt)
                 /\ now' = updated_at
                 /\ IF /\ Truthy(prompt_data.collection_id)
                       /\ Storage_get_collection(collections,
                                                 prompt_data.collection_id) = <<>>
                    THEN Reply(400, <<>>)
                    ELSE Reply(200, <<updated_prompt>>)
                 /\ UNCHANGED <<collections, issued>>

update_prompt(prompt_id, prompt_data) ==
    /\ Receive(Request("update_prompt", prompt_id, <<prompt_data>>))
    /\ IF ~PromptBase(prompt_data)
       THEN Reject(422)
       ELSE IF BlankId(prompt_id)
       THEN Reject(404)
       ELSE LET existing == Storage_get_prompt(prompts, prompt_id) IN
       IF existing = <<>>
       THEN Reject(404)
       ELSE IF /\ Truthy(prompt_data.collection_id)
               /\ Storage_get_collection(collections, prompt_data.collection_id) = <<>>
       THEN Reject(400)
       ELSE \E updated_at \in get_current_time(now) :
              LET updated_prompt == PutPrompt(existing[1], prompt_data, updated_at)
              IN /\ prompts' = Storage_update_prompt(prompts, prompt_id, updated_prompt)
                 /\ now' = updated_at
                 /\ Reply(200, <<updated_prompt>>)
                 /\ UNCHANGED <<collections, issued>>

patch_prompt(prompt_id, prompt_data) ==
    /\ Receive(Request("patch_prompt", prompt_id, <<prompt_data>>))
    /\ IF ~PromptBase(prompt_data)
       THEN Reject(422)
       ELSE IF BlankId(prompt_id)
       THEN Reject(404)
       ELSE LET existing == Storage_get_prompt(prompts, prompt_id) IN
       IF existing = <<>>
       THEN Reject(404)
       ELSE IF /\ Truthy(prompt_data.collection_id)
               /\ Storage_get_collection(collections, prompt_data.collection_id) = <<>>
       THEN Reject(400)
       ELSE \E updated_at \in get_current_time(now) :
              LET updated_prompt == PatchPrompt(existing[1], prompt_data, updated_at)
              IN /\ prompts' = Storage_update_prompt(prompts, prompt_id, updated_prompt)
                 /\ now' = updated_at
                 /\ Reply(200, <<updated_prompt>>)
                 /\ UNCHANGED <<collections, issued>>

\* delete_prompt that answers 204 whether or not the prompt was stored
delete_prompt_idempotent(prompt_id) ==
    /\ Receive(Request("delete_prompt", prompt_id, <<>>))
    /\ prompts' = Storage_delete_prompt(prompts, prompt_id)
    /\ Reply(204, <<>>)
    /\ UNCHANGED <<collections, now, issued>>

delete_prompt(prompt_id) ==
    /\ Receive(Request("delete_prompt", prompt_id, <<>>))
    /\ IF ~DictHas(prompts, prompt_id)
       THEN Reject(404)
       ELSE /\ prompts' = Storage_delete_prompt(prompts, prompt_id)
            /\ Reply(204, <<>>)
            /\ UNCHANGED <<collections, now, issued>>

list_collections ==
    /\ Receive(Request("list_collections", None, <<>>))
    /\ UNCHANGED <<prompts, collections, now, issued>>
    /\ LET all_collections == Storage_get_all_collections(collections)
       IN Reply(200, <<CollectionList(all_collections, Len(all_collections))>>)

get_collection(collection_id) ==
    /\ Receive(Request("get_collection", collection_id, <<>>))
    /\ UNCHANGED <<prompts, collections, now, issued>>
    /\ LET collection == Storage_get_collection(collections, collection_id) IN
       IF collection = <<>> THEN Reply(404, <<>>) ELSE Reply(200, collection)

create_collection(collection_data) ==
    /\ Receive(Request("create_collection", None, <<collection_data>>))
    /\ IF ~CollectionBase(collection_data)
       THEN Reject(422)
       ELSE /\ issued < IdsAvailable
            /\ \E created_at \in get_current_time(now) :
                 LET collection == Collection(generate_id(issued), collection_data.name,
                                              collection_data.description, created_at)
                 IN /\ collections' = Storage_create_collection(collections, collection)
                    /\ now' = created_at
                    /\ Reply(201, <<collection>>)
            /\ issued' = issued + 1
            /\ UNCHANGED prompts

\* delete_collection without the check for prompts that still use the collection
delete_collection_unguarded(collection_id) ==
    /\ Receive(Request("delete_collection", collection_id, <<>>))
    /\ IF BlankId(collection_id)
       THEN Reject(400)
       ELSE IF Storage_get_collection(collections, collection_id) = <<>>
       THEN Reject(404)
       ELSE /\ collections' = Storage_delete_collection(collections, collection_id)
            /\ Reply(204, <<>>)
            /\ UNCHANGED <<prompts, now, issued>>

\* delete_collection that looks for prompts in the collection before it looks
\* the collection up
delete_collection_scan_first(collection_id) ==
    /\ Receive(Request("delete_collection", collection_id, <<>>))
    /\ IF BlankId(collection_id)
       THEN Reject(400)
       ELSE LET all_prompts == Storage_get_all_prompts(prompts)
                prompts_in_collection ==
                    filter_prompts_by_collection(all_prompts, collection_id)
            IN IF prompts_in_collection # <<>>
               THEN Reject(400)
               ELSE IF Storage_get_collection(collections, collection_id) = <<>>
               THEN Reject(404)
               ELSE /\ collections' = Storage_delete_collection(collections, collection_id)
                    /\ Reply(204, <<>>)
                    /\ UNCHANGED <<prompts, now, issued>>

delete_collection(collection_id) ==
    /\ Receive(Request("delete_collection", collection_id, <<>>))
    /\ IF BlankId(collection_id)
       THEN Reject(400)
       ELSE IF Storage_get_collection(collections, collection_id) = <<>>
       THEN Reject(404)
       ELSE LET all_prompts == Storage_get_all_prompts(prompts)
                prompts_in_collection ==
                    filter_prompts_by_collection(all_prompts, collection_id)
            IN IF prompts_in_collection # <<>>
               THEN Reject(400)
               ELSE /\ collections' = Storage_delete_collection(collections, collection_id)
                    /\ Reply(204, <<>>)
                    /\ UNCHANGED <<prompts, now, issued>>

\* the response has been sent; the server is ready for the next request
Return ==
    /\ ~Idle
    /\ request' = NoRequest
    /\ response' = NoResponse
    /\ pre' = Snapshot
    /\ UNCHANGED <<prompts, collections, now, issued, script, threads, overlapped>>

\* the routes: a request arrives with its inputs and the handler answers it
Route_list_prompts ==
    /\ \E in \in Arriving(ListInputs) : list_prompts(in[1], in[2])
    /\ UNCHANGED script
Route_get_prompt ==
    /\ \E id \in Arriving(PathIds) : get_prompt(id)
    /\ UNCHANGED script
Route_create_prompt ==
    /\ \E body \in Arriving(PromptBodies) : create_prompt(body)
    /\ UNCHANGED script
Route_update_prompt ==
    /\ \E in \in Arriving(UpdateInputs) : update_prompt(in[1], in[2])
    /\ UNCHANGED script
Route_patch_prompt ==
    /\ \E in \in Arriving(UpdateInputs) : patch_prompt(in[1], in[2])
    /\ UNCHANGED script
Route_delete_prompt ==
    /\ \E id \in Arriving(PathIds) : delete_prompt(id)
    /\ UNCHANGED script
Route_list_collections ==
    /\ list_collections
    /\ UNCHANGED script
Route_get_collection ==
    /\ \E id \in Arriving(PathIds) : get_collection(id)
    /\ UNCHANGED script
Route_create_collection ==
    /\ \E body \in Arriving(CollectionBodies) : create_collection(body)
    /\ UNCHANGED script
Route_delete_collection ==
    /\ \E id \in Arriving(PathIds) : delete_collection(id)
    /\ UNCHANGED script

Next ==
    \/ Route_list_prompts
    \/ Route_get_prompt
    \/ Route_create_prompt
    \/ Route_update_prompt
    \/ Route_patch_prompt
    \/ Route_delete_prompt
    \/ Route_list_collections
    \/ Route_get_collection
    \/ Route_create_collection
    \/ Route_delete_collection
    \/ Return

Spec == Init /\ [][Next]_vars

----------------------------------------------------------------------------
(* The end-to-end client: after any requests it sends six requests in a row,
   each once the one before has been answered, and nothing else is sent
   once it has started.  It takes the ids it uses from the responses. *)

ScenarioCollection == [name |-> <<"C", "1">>, description |-> None]
ScenarioPrompt(cid) == Body(<<"T">>, <<"X">>, None, cid)

\* the id in the body of the response being written, if it has one
NewId == IF response'.body # <<>> THEN response'.body[1].id ELSE None

\* the client starts: from now on only its requests are sent
Scenario_start ==
    /\ ~script.started
    /\ Idle
    /\ script' = [script EXCEPT !.started = TRUE]
    /\ UNCHANGED <<prompts, collections, now, issued, request, response, pre,
                   threads, overlapped>>

Scenario_create_collection ==
    /\ script.started
    /\ script.step = 0
    /\ create_collection(ScenarioCollection)
    /\ script' = [script EXCEPT !.step = 1, !.cid = NewId]

Scenario_create_prompt ==
    /\ script.step = 1
    /\ create_prompt(ScenarioPrompt(script.cid))
    /\ script' = [script EXCEPT !.step = 2, !.pid = NewId]

Scenario_list_prompts ==
    /\ script.step = 2
    /\ list_prompts(script.cid, None)
    /\ script' = [script EXCEPT !.step = 3]

Scenario_delete_collection_first ==
    /\ script.step = 3
    /\ delete_collection(script.cid)
    /\ script' = [script EXCEPT !.step = 4]

Scenario_delete_prompt ==
    /\ script.step = 4
    /\ delete_prompt(script.pid)
    /\ script' = [script EXCEPT !.step = 5]

Scenario_delete_collection_again ==
    /\ script.step = 5
    /\ delete_collection(script.cid)
    /\ script' = [script EXCEPT !.step = 6]

\* the requests that come before the client's and make the store it finds
\* (the GET routes change nothing and are left out)
Scenario_before ==
    /\ ~script.started
    /\ \/ Route_create_prompt
       \/ Route_update_prompt
       \/ Route_patch_prompt
       \/ Route_delete_prompt
       \/ Route_create_collection
       \/ Route_delete_collection

ScenarioNext ==
    \/ Scenario_before
    \/ Scenario_start
    \/ Scenario_create_collection
    \/ Scenario_create_prompt
    \/ Scenario_list_prompts
    \/ Scenario_delete_collection_first
    \/ Scenario_delete_prompt
    \/ Scenario_delete_collection_again
    \/ Return

ScenarioSpec == Init /\ [][ScenarioNext]_vars

----------------------------------------------------------------------------
(* The handlers run by worker threads with nothing to keep them apart: the
   handlers are plain functions (def), which the framework calls on threads
   of a pool, and neither api.py nor storage.py takes a lock.  A step of a
   thread is one access to a dict of Storage together with the thread's own
   computation around it; a switch of threads can come between any two.
   Requests answered one at a time fill the store first; then each thread
   is given one request. *)

\* the requests given to the threads
PatchDescription == Body(<<"a">>, <<"x">>, <<"d">>, None)
PatchCollection == Body(<<"a">>, <<"x">>, None, Uuid(1))
PutBody == Body(<<"B">>, <<"y">>, None, None)

ThreadRequests(t) ==
    IF t = 1
    THEN {Request("create_prompt", None, <<PatchCollection>>),
          Request("patch_prompt", Uuid(2), <<PatchDescription>>),
          Request("update_prompt", Uuid(2), <<PutBody>>)}
    ELSE {Request("delete_collection", Uuid(1), <<>>),
          Request("patch_prompt", Uuid(2), <<PatchCollection>>),
          Request("delete_prompt", Uuid(2), <<>>)}

\* the requests with handler op that thread t can be given
Given(t, op) == {r \in ThreadRequests(t) : r.op = op}

InHandler(th) == th.pc \notin {"idle", "done"}

\* thread t takes a step that leaves it as th
Step(t, th) ==
    /\ threads' = [threads EXCEPT ![t] = th]
    /\ overlapped' = (overlapped \/ \E u \in Threads \ {t} : InHandler(threads[u]))
    /\ UNCHANGED <<request, response, pre, script>>

\* thread t is given req once the store has been filled
Starts(t, req) ==
    /\ Idle
    /\ threads[t].pc = "idle"
    /\ req \in ThreadRequests(t)

At(t, op, pc) == threads[t].req.op = op /\ threads[t].pc = pc

Goto(th, pc) == [th EXCEPT !.pc = pc]
Finish(th, status) == [th EXCEPT !.pc = "done", !.status = status]

\* the body names a collection that is not stored
CollectionMissing_never(cs, prompt_data) == FALSE
CollectionMissing(cs, prompt_data) ==
    /\ Truthy(prompt_data.collection_id)
    /\ Storage_get_collection(cs, prompt_data.collection_id) = <<>>

\* Storage.update_prompt and Storage.delete_*: the membership test and the
\* assignment or del that follows it are two accesses to the dict
Storage_contains(d, id) == DictHas(d, id)
Storage_update_prompt_write_dropping(ps, id, p) == ps
Storage_update_prompt_write(ps, id, p) == DictSet(ps, id, p)

\* create_prompt: validation and the lookup of the collection
Thread_create_prompt_check ==
    \E t \in Threads : \E req \in Given(t, "create_prompt") :
      /\ Starts(t, req)
      /\ LET th == [threads[t] EXCEPT !.req = req]
             prompt_data == req.body[1]
         IN Step(t, IF ~PromptBase(prompt_data) THEN Finish(th, 422)
                    ELSE IF CollectionMissing(collections, prompt_data)
                    THEN Finish(th, 400)
                    ELSE Goto(th, "create"))
      /\ UNCHANGED <<prompts, collections, now, issued>>

\* create_prompt: Prompt(...) and storage.create_prompt
Thread_create_prompt_store ==
    \E t \in Threads :
      /\ At(t, "create_prompt", "create")
      /\ issued < IdsAvailable
      /\ \E created_at \in get_current_time(now) :
         \E updated_at \in get_current_time(created_at) :
           LET prompt_data == threads[t].req.body[1]
               prompt == Prompt(generate_id(issued), prompt_data.title,
                                prompt_data.content, prompt_data.description,
                                prompt_data.collection_id, created_at, updated_at)
           IN /\ prompts' = Storage_create_prompt(prompts, prompt)
              /\ now' = updated_at
              /\ Step(t, Finish([threads[t] EXCEPT !.updated = <<prompt>>], 201))
      /\ issued' = issued + 1
      /\ UNCHANGED collections

\* the Prompt that update_prompt or patch_prompt builds
Updated(op, existing, prompt_data, updated_at) ==
    IF op = "update_prompt"
    THEN PutPrompt(existing, prompt_data, updated_at)
    ELSE PatchPrompt(existing, prompt_data, updated_at)

\* thread t, having the stored prompt and no collection left to look up, reads
\* the clock, builds the new Prompt and calls storage.update_prompt
Build(t, th, existing) ==
    \E updated_at \in get_current_time(now) :
      /\ now' = updated_at
      /\ Step(t, Goto([th EXCEPT !.existing = existing,
                                 !.updated = <<Updated(th.req.op, existing[1],
                                                       th.req.body[1], updated_at)>>],
                      "check"))

\* update_prompt and patch_prompt: validation, the blank id and storage.get_prompt
Thread_update_prompt_get ==
    \E t \in Threads :
    \E req \in Given(t, "update_prompt") \cup Given(t, "patch_prompt") :
      /\ Starts(t, req)
      /\ LET th == [threads[t] EXCEPT !.req = req]
             prompt_data == req.body[1]
             existing == Storage_get_prompt(prompts, req.id)
         IN IF ~PromptBase(prompt_data)
            THEN Step(t, Finish(th, 422)) /\ UNCHANGED now
            ELSE IF BlankId(req.id) \/ existing = <<>>
            THEN Step(t, Finish(th, 404)) /\ UNCHANGED now
            ELSE IF Truthy(prompt_data.collection_id)
            THEN Step(t, Goto([th EXCEPT !.existing = existing], "ref"))
                 /\ UNCHANGED now
            ELSE Build(t, th, existing)
      /\ UNCHANGED <<prompts, collections, issued>>

\* update_prompt and patch_prompt: storage.get_collection
Thread_update_prompt_ref ==
    \E t \in Threads :
      /\ threads[t].pc = "ref"
      /\ IF CollectionMissing(collections, threads[t].req.body[1])
         THEN Step(t, Finish(threads[t], 400)) /\ UNCHANGED now
         ELSE Build(t, threads[t], threads[t].existing)
      /\ UNCHANGED <<prompts, collections, issued>>

\* Storage.update_prompt: `if prompt_id not in self._prompts: return None`;
\* the handler returns the None, which is no Prompt: 500
Thread_update_prompt_check ==
    \E t \in Threads :
      /\ threads[t].req.op \in {"update_prompt", "patch_prompt"}
      /\ threads[t].pc = "check"
      /\ Step(t, IF ~Storage_contains(prompts, threads[t].req.id)
                 THEN Finish(threads[t], 500)
                 ELSE Goto(threads[t], "write"))
      /\ UNCHANGED <<prompts, collections, now, issued>>

\* Storage.update_prompt: `self._prompts[prompt_id] = prompt`
Thread_update_prompt_write ==
    \E t \in Threads :
      /\ threads[t].pc = "write"
      /\ prompts' = Storage_update_prompt_write(prompts, threads[t].req.id,
                                                 threads[t].updated[1])
      /\ Step(t, Finish(threads[t], 200))
      /\ UNCHANGED <<collections, now, issued>>

\* Storage.delete_prompt: `if prompt_id in self._prompts`
Thread_delete_prompt_check ==
    \E t \in Threads : \E req \in Given(t, "delete_prompt") :
      /\ Starts(t, req)
      /\ LET th == [threads[t] EXCEPT !.req = req]
         IN Step(t, IF ~Storage_contains(prompts, req.id)
                    THEN Finish(th, 404)
                    ELSE Goto(th, "del"))
      /\ UNCHANGED <<prompts, collections, now, issued>>

\* Storage.delete_prompt: `del self._prompts[prompt_id]`, a KeyError (500) when
\* the key has gone since the test
Thread_delete_prompt_del ==
    \E t \in Threads :
      /\ At(t, "delete_prompt", "del")
      /\ IF Storage_contains(prompts, threads[t].req.id)
         THEN /\ prompts' = Storage_delete_prompt(prompts, threads[t].req.id)
              /\ Step(t, Finish(threads[t], 204))
         ELSE /\ UNCHANGED prompts
              /\ Step(t, Finish(threads[t], 500))
      /\ UNCHANGED <<collections, now, issued>>

\* delete_collection: the blank id and storage.get_collection
Thread_delete_collection_get ==
    \E t \in Threads : \E req \in Given(t, "delete_collection") :
      /\ Starts(t, req)
      /\ LET th == [threads[t] EXCEPT !.req = req]
         IN Step(t, IF BlankId(req.id) THEN Finish(th, 400)
                    ELSE IF Storage_get_collection(collections, req.id) = <<>>
                    THEN Finish(th, 404)
                    ELSE Goto(th, "scan"))
      /\ UNCHANGED <<prompts, collections, now, issued>>

\* delete_collection: storage.get_all_prompts and the filter
Thread_delete_collection_scan ==
    \E t \in Threads :
      /\ At(t, "delete_collection", "scan")
      /\ LET all_prompts == Storage_get_all_prompts(prompts)
             prompts_in_collection ==
                 filter_prompts_by_collection(all_prompts, threads[t].req.id)
         IN Step(t, IF prompts_in_collection # <<>>
                    THEN Finish(threads[t], 400)
                    ELSE Goto(threads[t], "check"))
      /\ UNCHANGED <<prompts, collections, now, issued>>

\* Storage.delete_collection: `if collection_id in self._collections`; the
\* handler ignores the False it returns otherwise
Thread_delete_collection_check ==
    \E t \in Threads :
      /\ At(t, "delete_collection", "check")
      /\ Step(t, IF ~Storage_contains(collections, threads[t].req.id)
                 THEN Finish(threads[t], 204)
                 ELSE Goto(threads[t], "del"))
      /\ UNCHANGED <<prompts, collections, now, issued>>

\* Storage.delete_collection: `del self._collections[collection_id]`
Thread_delete_collection_del ==
    \E t \in Threads :
      /\ At(t, "delete_collection", "del")
      /\ IF Storage_contains(collections, threads[t].req.id)
         THEN /\ collections' = Storage_delete_collection(collections, threads[t].req.id)
              /\ Step(t, Finish(threads[t], 204))
         ELSE /\ UNCHANGED collections
              /\ Step(t, Finish(threads[t], 500))
      /\ UNCHANGED <<prompts, now, issued>>

\* the requests that fill the store, answered one at a time before any thread
\* is given a request
Threads_before ==
    /\ \A t \in Threads : threads[t].pc = "idle"
    /\ \/ Route_create_collection
       \/ Route_create_prompt
       \/ Return

ThreadsNext ==
    \/ Threads_before
    \/ Thread_create_prompt_check
    \/ Thread_create_prompt_store
    \/ Thread_update_prompt_get
    \/ Thread_update_prompt_ref
    \/ Thread_update_prompt_check
    \/ Thread_update_prompt_write
    \/ Thread_delete_prompt_check
    \/ Thread_delete_prompt_del
    \/ Thread_delete_collection_get
    \/ Thread_delete_collection_scan
    \/ Thread_delete_collection_check
    \/ Thread_delete_collection_del

ThreadsSpec == Init /\ [][ThreadsNext]_vars

\* The same server when requests keep coming after the threads have answered
\* theirs: once every thread is done, requests are answered one at a time on
\* the store the threads have left.  They are a PUT or a PATCH whose body
\* names a collection id that generate_id() never returned, and a DELETE
\* /collections/{id}.
UnknownCollection == Body(<<"a">>, <<"x">>, None, Uuid(0))

AfterUpdateInputs == AllIds \X {UnknownCollection}

After_update_prompt ==
    /\ \E in \in Arriving(AfterUpdateInputs) : update_prompt(in[1], in[2])
    /\ UNCHANGED script
After_patch_prompt ==
    /\ \E in \in Arriving(AfterUpdateInputs) : patch_prompt(in[1], in[2])
    /\ UNCHANGED script

Threads_after ==
    /\ \A t \in Threads : threads[t].pc = "done"
    /\ \/ After_update_prompt
       \/ After_patch_prompt
       \/ Route_delete_collection
       \/ Return

AfterThreadsNext ==
    \/ ThreadsNext
    \/ Threads_after

AfterThreadsSpec == Init /\ [][AfterThreadsNext]_vars

----------------------------------------------------------------------------
(* Properties.  They are stated of the request being answered, its response,
   the maps before the request (pre) and the maps after it. *)

ReqBody == request.body[1]
Answer == response.body[1]
Before(id) == DictGet(pre.prompts, id)[1]
After(id) == DictGet(prompts, id)[1]
Resolves(cs, cid) == DictHas(cs, cid)
Referenced(ps, cid) == \E i \in DOMAIN ps : ps[i][2].collection_id = cid

\* C1: every stored Prompt whose collection_id is not null has the id of a
\* stored Collection as its collection_id.
C1_ReferentialIntegrity ==
    \A i \in DOMAIN prompts :
        prompts[i][2].collection_id # None
            => Resolves(collections, prompts[i][2].collection_id)

\* C2: POST /prompts with a collection_id value that is not the id of a stored
\* Collection is answered 400 and leaves the stored prompts as they were.
C2_CreateWithBadReferenceFails ==
    ( /\ request.op = "create_prompt"
      /\ PromptBase(ReqBody)
      /\ ReqBody.collection_id # None
      /\ ~Resolves(pre.collections, ReqBody.collection_id) )
    => (response.status = 400 /\ prompts = pre.prompts)

\* C3: DELETE /collections/{id} of a stored collection that a stored Prompt
\* uses is answered 400 and changes nothing; the collection is still there
\* for GET /collections/{id}.
C3_ReferencedCollectionNotDeleted ==
    ( /\ request.op = "delete_collection"
      /\ Resolves(pre.collections, request.id)
      /\ Referenced(pre.prompts, request.id) )
    => /\ response.status = 400
       /\ prompts = pre.prompts
       /\ collections = pre.collections
       /\ Storage_get_collection(collections, request.id)
            = Storage_get_collection(pre.collections, request.id)
       /\ Storage_get_collection(collections, request.id) # <<>>

C3_Witness ==
    /\ request.op = "delete_collection"
    /\ Resolves(pre.collections, request.id)
    /\ Referenced(pre.prompts, request.id)
    /\ response.status = 400

\* C4: PUT or PATCH of a stored prompt with a non-null collection_id that is
\* not the id of a stored Collection is answered 400 and leaves the stored
\* prompt, updated_at included, as it was.
C4_UpdateWithBadReferenceFails ==
    ( /\ request.op \in {"update_prompt", "patch_prompt"}
      /\ DictHas(pre.prompts, request.id)
      /\ PromptBase(ReqBody)
      /\ ReqBody.collection_id # None
      /\ ~Resolves(pre.collections, ReqBody.collection_id) )
    => (response.status = 400 /\ prompts = pre.prompts)

\* C5: the Prompt that POST /prompts returns has an id that no prompt stored
\* before the request has, and its created_at equals its updated_at.
C5_CreatedPromptFreshAndStamped ==
    (request.op = "create_prompt" /\ response.status = 201)
    => /\ ~DictHas(pre.prompts, Answer.id)
       /\ Answer.created_at = Answer.updated_at

\* C6: PATCH /prompts/{id} of a stored prompt with a body that sets only title
\* succeeds; content, description and collection_id keep their values and
\* updated_at becomes strictly greater.
C6_PatchWithOnlyTitle ==
    ( /\ request.op = "patch_prompt"
      /\ DictHas(pre.prompts, request.id)
      /\ ReqBody.title # None
      /\ Len(ReqBody.title) \in 1..TitleMax
      /\ ReqBody.content = None
      /\ ReqBody.description = None
      /\ ReqBody.collection_id = None )
    => /\ response.status = 200
       /\ After(request.id).content = Before(request.id).content
       /\ After(request.id).description = Before(request.id).description
       /\ After(request.id).collection_id = Before(request.id).collection_id
       /\ After(request.id).updated_at > Before(request.id).updated_at

MutableFields == {"title", "content", "description", "collection_id"}

\* C7: after an accepted PATCH each of title, content, description and
\* collection_id of the stored prompt is the body's value when that is not
\* null and the value the prompt had before when it is null.
C7_PatchMerges ==
    (request.op = "patch_prompt" /\ response.status = 200)
    => /\ DictHas(prompts, request.id)
       /\ LET old == Before(request.id)
              new == After(request.id)
          IN /\ Answer = new
             /\ \A f \in MutableFields :
                  new[f] = IF ReqBody[f] # None THEN ReqBody[f] ELSE old[f]

C7_Witness ==
    /\ request.op = "patch_prompt"
    /\ response.status = 200
    /\ ReqBody.description = None
    /\ Before(request.id).description # None
    /\ ReqBody.collection_id = <<>>
    /\ Before(request.id).collection_id \notin {None, <<>>}
    /\ ReqBody.title # Before(request.id).title

\* C8: a successful PUT or PATCH stores a prompt with the id and created_at
\* the record had before and the clock value read during the request as
\* updated_at; and no request changes the id or created_at of a prompt that
\* is stored before and after it.
C8_IdentityPreserved ==
    /\ (request.op \in {"update_prompt", "patch_prompt"} /\ response.status = 200)
        => /\ DictHas(prompts, request.id)
           /\ LET old == Before(request.id)
                  new == After(request.id)
              IN /\ Answer = new
                 /\ new.id = old.id
                 /\ new.created_at = old.created_at
                 /\ new.updated_at = now
    /\ \A i \in DOMAIN pre.prompts : \A j \in DOMAIN prompts :
           pre.prompts[i][1] = prompts[j][1]
           => /\ prompts[j][2].id = pre.prompts[i][2].id
              /\ prompts[j][2].created_at = pre.prompts[i][2].created_at

C8_Witness ==
    /\ request.op = "update_prompt"
    /\ response.status = 200
    /\ Before(request.id).created_at < now
    /\ ReqBody.title # Before(request.id).title

\* C9: a successful PUT stores the body's title, content, description and
\* collection_id; description and collection_id become null when the body
\* leaves them out, whatever the prompt held.
C9_PutReplaces ==
    (request.op = "update_prompt" /\ response.status = 200)
    => /\ DictHas(prompts, request.id)
       /\ LET new == After(request.id)
          IN \A f \in MutableFields : new[f] = ReqBody[f]

C9_Witness ==
    /\ request.op = "update_prompt"
    /\ response.status = 200
    /\ ReqBody.description = None
    /\ Before(request.id).description # None
    /\ ReqBody.collection_id = None
    /\ Before(request.id).collection_id # None
    /\ After(request.id).description = None
    /\ After(request.id).collection_id = None

PathOps ==
    {"get_prompt", "update_prompt", "patch_prompt", "delete_prompt",
     "get_collection", "delete_collection"}

\* empty or made of whitespace only
BlankText(s) == \A i \in DOMAIN s : s[i] \in Whitespace

\* C10: every endpoint with a path identifier answers 404 when the identifier
\* is empty or whitespace-only (the body of a PUT or PATCH being a valid one).
C10_BlankIdIsNotFound ==
    ( /\ request.op \in PathOps
      /\ BlankText(request.id)
      /\ request.op \in {"update_prompt", "patch_prompt"} => PromptBase(ReqBody) )
    => response.status = 404

\* C10 as amended: the prompt endpoints and GET /collections/{id} answer 404
\* (PUT and PATCH once the body has passed validation, 422 otherwise);
\* DELETE /collections/{id} answers 400.
C10_BlankIdAnswer ==
    (request.op \in PathOps /\ BlankText(request.id))
    => response.status =
         IF request.op = "delete_collection" THEN 400
         ELSE IF request.op \in {"update_prompt", "patch_prompt"}
                 /\ ~PromptBase(ReqBody) THEN 422
         ELSE 404

C10_Witness ==
    /\ request.op = "delete_collection"
    /\ request.id = <<" ">>
    /\ collections # <<>>
    /\ response.status = 400

\* the ids generate_id() has returned so far
IssuedIds == {Uuid(n) : n \in 1..issued}

\* the items of dict d without the one keyed k
Without(d, k) == SelectSeq(d, LAMBDA item : item[1] # k)

\* C11: DELETE /collections/{id} of a stored collection that no stored Prompt
\* references is answered 204 and removes that collection and nothing else;
\* GET /collections/{id} of an id that is not stored is answered 404; and an
\* id that has been issued and is not a stored collection's id never becomes
\* one again, so the GET stays 404 whatever requests follow the delete.
C11_DeleteUnusedCollection ==
    /\ []( ( /\ request.op = "delete_collection"
             /\ Resolves(pre.collections, request.id)
             /\ ~Referenced(pre.prompts, request.id) )
           => /\ response.status = 204
              /\ collections = Without(pre.collections, request.id)
              /\ ~Resolves(collections, request.id)
              /\ prompts = pre.prompts )
    /\ []( ( /\ request.op = "get_collection"
             /\ ~Resolves(pre.collections, request.id) )
           => response.status = 404 )
    /\ [][ \A id \in IssuedIds :
             ~Resolves(collections, id) => ~Resolves(collections', id) ]_vars

C11_Witness ==
    /\ request.op = "delete_collection"
    /\ response.status = 204
    /\ Len(pre.collections) = 2
    /\ Len(collections) = 1
    /\ request.id \in IssuedIds

\* C12: DELETE /prompts/{id} and DELETE /collections/{id} with a non-blank id
\* that is not stored (never created, or deleted before) are answered 404 and
\* leave both maps as they were.
C12_DeleteAbsentIsNotFound ==
    ( /\ ~BlankText(request.id)
      /\ \/ request.op = "delete_prompt" /\ ~DictHas(pre.prompts, request.id)
         \/ request.op = "delete_collection" /\ ~Resolves(pre.collections, request.id) )
    => /\ response.status = 404
       /\ prompts = pre.prompts
       /\ collections = pre.collections

\* a DELETE of an id that was issued and is stored no longer
C12_Witness ==
    /\ request.op = "delete_prompt"
    /\ request.id \in IssuedIds
    /\ ~DictHas(pre.prompts, request.id)
    /\ ~DictHas(pre.collections, request.id)
    /\ response.status = 404

ErrorStatus == {400, 404, 422}

\* C13: a request answered 400, 404 or 422 leaves both maps exactly as they
\* were when it arrived.
C13_ErrorsChangeNothing ==
    response.status \in ErrorStatus
    => (prompts = pre.prompts /\ collections = pre.collections)

C13_Witness ==
    /\ request.op = "update_prompt"
    /\ response.status = 400
    /\ DictHas(pre.prompts, request.id)
    /\ ReqBody.title # Before(request.id).title

\* p is what GET /prompts?collection_id=c&search=s asks for (None: not given)
Matches(p, c, s) ==
    /\ c # None => p.collection_id = c
    /\ s # None => \/ IsSubstring(lower(s), lower(p.title))
                   \/ IsSubstring(lower(s), lower(p.content))

\* C14: GET /prompts returns exactly the stored prompts whose collection_id
\* equals the collection_id parameter (when given, the empty string included)
\* and that contain the search term (when given) in title or content, case
\* ignored; each once; and total is their number.
C14_ListReturnsMatching ==
    request.op = "list_prompts"
    => LET returned == Answer.prompts
           wanted == {i \in DOMAIN pre.prompts :
                        Matches(pre.prompts[i][2], request.id, ReqBody)}
       IN /\ Answer.total = Len(returned)
          /\ Len(returned) = Cardinality(wanted)
          /\ \A i \in wanted :
               \E j \in DOMAIN returned : returned[j] = pre.prompts[i][2]

\* the n of the n-th id issued
IdNum(id) == CHOOSE n \in 1..MaxIds : Uuid(n) = id

\* the keys of dict d in order
KeyOrder(d) == [i \in DOMAIN d |-> d[i][1]]

\* C15: in every GET /prompts response a prompt with a greater updated_at
\* comes before one with a smaller, and prompts with equal updated_at come in
\* the order in which they were created; a PUT or PATCH leaves the order of
\* the store's keys as it was.
C15_ListSortedStable ==
    /\ request.op = "list_prompts"
       => LET returned == Answer.prompts
          IN \A i, j \in DOMAIN returned :
               i < j => \/ returned[i].updated_at > returned[j].updated_at
                        \/ /\ returned[i].updated_at = returned[j].updated_at
                           /\ IdNum(returned[i].id) < IdNum(returned[j].id)
    /\ (request.op \in {"update_prompt", "patch_prompt"} /\ response.status = 200)
       => KeyOrder(prompts) = KeyOrder(pre.prompts)

C15_Witness ==
    /\ request.op = "list_prompts"
    /\ Len(Answer.prompts) = 2
    /\ Answer.prompts[1].id = Uuid(2)
    /\ Answer.prompts[2].id = Uuid(1)
    /\ Answer.prompts[1].updated_at > Answer.prompts[2].updated_at

ScenarioStatus == <<201, 201, 200, 400, 204, 204>>

\* C16: whatever the store holds when it starts, the client's POST
\* /collections, POST /prompts into that collection, GET /prompts of that
\* collection, DELETE of the collection, DELETE of the prompt and DELETE of
\* the collection are answered 201, 201, 200 with total 1, 400, 204 and 204.
C16_EndToEnd ==
    (script.step > 0 /\ ~Idle)
    => /\ response.status = ScenarioStatus[script.step]
       /\ script.step = 3 => Answer.total = 1

C16_Witness ==
    /\ script.step = 6
    /\ prompts # <<>>
    /\ response.status = 204
    /\ script.cid \in IssuedIds
    /\ script.pid \in IssuedIds
    /\ ~Resolves(collections, script.cid)
    /\ ~DictHas(prompts, script.pid)

\* thread t has been answered status for a request with handler op
Answered(t, op, status) ==
    /\ threads[t].req.op = op
    /\ threads[t].pc = "done"
    /\ threads[t].status = status

\* a stored prompt has a non-empty collection_id that is no stored
\* collection's id
Dangling(cid) == Truthy(cid) /\ Referenced(prompts, cid) /\ ~Resolves(collections, cid)

\* C18: as long as no thread has taken a step while another was inside a
\* handler, that is when each handler has run as a whole, no stored prompt has
\* a non-empty collection_id that names no stored collection.  (That the
\* state is reached when the handlers interleave is C18_Witness.)
C18_AtomicKeepsReferences ==
    ~overlapped
    => \A i \in DOMAIN prompts : ~Dangling(prompts[i][2].collection_id)

\* POST /prompts into collection c and DELETE /collections/{c} have
\* interleaved, both have succeeded, and a stored prompt names c, which is
\* stored no longer
C18_Witness ==
    \E t, u \in Threads :
      /\ overlapped
      /\ Answered(t, "create_prompt", 201)
      /\ Answered(u, "delete_collection", 204)
      /\ threads[t].req.body[1].collection_id = threads[u].req.id
      /\ DictHas(prompts, threads[t].updated[1].id)
      /\ Dangling(threads[u].req.id)

\* the fields of a stored prompt that the PATCH of thread t sets and the PATCH
\* of thread u leaves alone
SetOnlyBy(t, u) ==
    {f \in MutableFields :
       threads[t].req.body[1][f] # None /\ threads[u].req.body[1][f] = None}

\* both threads have been answered 200 for a PATCH of the same prompt
BothPatched(t, u) ==
    /\ t # u
    /\ Answered(t, "patch_prompt", 200)
    /\ Answered(u, "patch_prompt", 200)
    /\ threads[t].req.id = threads[u].req.id

\* C19: when two PATCH requests of one prompt that set different fields have
\* both been answered 200 and neither ran while the other was inside its
\* handler, the stored prompt has the value each request set in the fields
\* the other left alone.  (That one of the two changes is lost when they
\* interleave is C19_Witness.)
C19_AtomicPatchesKeepBoth ==
    \A t, u \in Threads :
      (BothPatched(t, u) /\ ~overlapped)
      => /\ DictHas(prompts, threads[t].req.id)
         /\ \A f \in SetOnlyBy(t, u) :
              DictGet(prompts, threads[t].req.id)[1][f] = threads[t].req.body[1][f]

\* both PATCH requests were answered 200, each set a field the other left
\* alone, and the stored prompt has lost the description one of them set
C19_Witness ==
    \E t, u \in Threads :
      /\ BothPatched(t, u)
      /\ overlapped
      /\ "description" \in SetOnlyBy(t, u)
      /\ "collection_id" \in SetOnlyBy(u, t)
      /\ DictGet(prompts, threads[t].req.id)[1].description = None
      /\ DictGet(prompts, threads[t].req.id)[1].collection_id
           = threads[u].req.body[1].collection_id

\* C20: once DELETE /prompts/{p} has removed p and answered 204, p is not in
\* the store, whatever steps a PUT or PATCH of p takes beside it.
C20_DeletedStaysDeleted ==
    \A t \in Threads :
      Answered(t, "delete_prompt", 204) => ~DictHas(prompts, threads[t].req.id)

\* every item of dict d is keyed by the id of the entity it holds, and no two
\* items hold the same id
KeyedById(d) ==
    /\ \A i \in DOMAIN d : d[i][2].id = d[i][1]
    /\ \A i \in DOMAIN d : \A j \in DOMAIN d : i < j => d[i][2].id # d[j][2].id

\* C21: in every state every entry of the prompts map and of the collections
\* map is keyed by the id of the entity it holds, so no two stored entities of
\* a map share an id, and the prompt that GET /prompts/{k} returns has id k.
C21_KeyedByOwnId ==
    /\ KeyedById(prompts)
    /\ KeyedById(collections)
    /\ (request.op = "get_prompt" /\ response.status = 200)
       => Answer.id = request.id

\* a PUT has stored a new Prompt under the key of one of two stored prompts
C21_Witness ==
    /\ request.op = "update_prompt"
    /\ response.status = 200
    /\ Len(prompts) = 2
    /\ After(request.id) # Before(request.id)
    /\ After(request.id).id = request.id

\* C22: with a clock that never goes backwards, every stored prompt has
\* updated_at >= created_at, and no request makes the updated_at of a prompt
\* that is stored before and after it smaller.
C22_StampsOrdered ==
    /\ \A i \in DOMAIN prompts :
         prompts[i][2].updated_at >= prompts[i][2].created_at
    /\ prompts # pre.prompts
       => \A i \in DOMAIN pre.prompts : \A j \in DOMAIN prompts :
            pre.prompts[i][1] = prompts[j][1]
            => prompts[j][2].updated_at >= pre.prompts[i][2].updated_at

\* a PATCH of a prompt that had been updated after its creation, at a later
\* reading of the clock
C22_Witness ==
    /\ request.op = "patch_prompt"
    /\ response.status = 200
    /\ Before(request.id).updated_at > Before(request.id).created_at
    /\ After(request.id).updated_at >= Before(request.id).updated_at
    /\ After(request.id).created_at = Before(request.id).created_at
    /\ After(request.id).updated_at = now

PromptMutations == {"create_prompt", "update_prompt", "patch_prompt", "delete_prompt"}
CollectionMutations == {"create_collection", "delete_collection"}
Reads == {"list_prompts", "get_prompt", "list_collections", "get_collection"}
Success == {200, 201, 204}

\* the id of the entity a request that succeeded is about: the path id, or
\* the id of the entity a POST returns
Target == IF request.id # None THEN request.id ELSE Answer.id

\* C23: a successful POST, PUT, PATCH or DELETE of prompt p leaves every
\* other stored prompt and the whole collections map as they were; a
\* successful POST or DELETE of a collection leaves the whole prompts map
\* and every other collection as they were; a GET changes neither map.
C23_OthersUntouched ==
    /\ (request.op \in PromptMutations /\ response.status \in Success)
       => /\ Without(prompts, Target) = Without(pre.prompts, Target)
          /\ collections = pre.collections
    /\ (request.op \in CollectionMutations /\ response.status \in Success)
       => /\ Without(collections, Target) = Without(pre.collections, Target)
          /\ prompts = pre.prompts
    /\ request.op \in Reads
       => (prompts = pre.prompts /\ collections = pre.collections)

\* a PUT that changed one of two stored prompts
C23_Witness ==
    /\ request.op = "update_prompt"
    /\ response.status = 200
    /\ Len(pre.prompts) = 2
    /\ Len(prompts) = 2
    /\ After(request.id).title # Before(request.id).title
    /\ \E i \in DOMAIN prompts :
         prompts[i][1] # request.id /\ prompts[i] = pre.prompts[i]

\* PUT or PATCH with a body that passes validation
ValidUpdate ==
    /\ request.op \in {"update_prompt", "patch_prompt"}
    /\ PromptBase(ReqBody)

\* C24: PUT or PATCH of a prompt id that is not stored is answered 404
\* whether or not the body's collection_id resolves, a 400 being answered
\* only when the prompt is stored; and DELETE /collections/{id} of an id that
\* is not stored is answered 404, whether or not stored prompts have that id
\* as their collection_id.
C24_AbsentIsNotFound ==
    /\ (ValidUpdate /\ ~DictHas(pre.prompts, request.id))
       => response.status = 404
    /\ (ValidUpdate /\ response.status = 400)
       => DictHas(pre.prompts, request.id)
    /\ (request.op = "delete_collection" /\ ~Resolves(pre.collections, request.id))
       => response.status = 404

\* C24 as amended: DELETE /collections/{id} checks for a blank id first, so an
\* id that is not stored is answered 400 when it is empty or whitespace-only
\* and 404 otherwise, in both cases whether or not stored prompts have that
\* id as their collection_id; PUT and PATCH are as stated.
C24_CheckOrder ==
    /\ (ValidUpdate /\ ~DictHas(pre.prompts, request.id))
       => response.status = 404
    /\ (ValidUpdate /\ response.status = 400)
       => DictHas(pre.prompts, request.id)
    /\ (request.op = "delete_collection" /\ ~Resolves(pre.collections, request.id))
       => response.status = IF BlankText(request.id) THEN 400 ELSE 404

\* DELETE /collections/{c} answered 404 while a stored prompt has c as its
\* collection_id: the prompt was created while another thread deleted c
C24_Witness ==
    /\ request.op = "delete_collection"
    /\ ~BlankText(request.id)
    /\ ~Resolves(pre.collections, request.id)
    /\ Referenced(pre.prompts, request.id)
    /\ response.status = 404
    /\ prompts = pre.prompts

====
